---- MODULE Spec2Model ----
(***************************************************************************)
(* Plant Doctor bot: the webhook dispatch and response-delivery pipeline   *)
(* of src/app.py (OpenAI backend) and src/main.py (Gemini backend).        *)
(*                                                                         *)
(* One behaviour is the handling of one inbound update by webhook().  The  *)
(* variable backend says which of the two deployments runs.  Text is a     *)
(* sequence of code points (one-character strings; a code point outside    *)
(* ASCII is written "U+xxxx"), so that len(), slicing and str.replace act  *)
(* on it as in Python.  Static message texts that are only ever sent whole *)
(* are one-element sequences holding the text's name.  Every call to the   *)
(* messaging platform or the AI backend either returns or raises; log      *)
(* records each call in program order with its outcome.                    *)
(***************************************************************************)
EXTENDS Integers, Sequences, FiniteSets, TLC

VARIABLES backend, pc, update, log, exc, processing_msg, analysis,
          formatted_response, chunks, ci, response

vars == <<backend, pc, update, log, exc, processing_msg, analysis,
          formatted_response, chunks, ci, response>>

(***************************************************************************)
(* Bounds of the model.                                                    *)
(***************************************************************************)
\* longest run of arbitrary characters drawn for an analysis text
MaxCore == 2

None == "None"
NoExc == <<>>
Backends == {"app", "main"}

(***************************************************************************)
(* Python text primitives.                                                 *)
(***************************************************************************)
Rep(c, k) == [i \in 1..k |-> c]

Min(a, b) == IF a < b THEN a ELSE b

\* s[i:j] for 0 <= i <= j
Slice(s, i, j) == SubSeq(s, Min(i, Len(s)) + 1, Min(j, Len(s)))

\* list(range(0, n, step))
Range0(n, step) == [k \in 1..((n + step - 1) \div step) |-> (k - 1) * step]

\* str.replace(c, r) for a one-character pattern c: every occurrence, left to right
RECURSIVE Replace(_, _, _)
Replace(t, c, r) ==
  LET hits == {i \in 1..Len(t) : t[i] = c} IN
  IF hits = {} THEN t
  ELSE LET i == CHOOSE k \in hits : \A j \in hits : k <= j
       IN  SubSeq(t, 1, i - 1) \o r \o Replace(SubSeq(t, i + 1, Len(t)), c, r)

Whitespace == {" ", "\n", "\t"}

\* str.strip()
RECURSIVE Strip(_)
Strip(t) ==
  IF t = <<>> THEN t
  ELSE IF t[1] \in Whitespace THEN Strip(Tail(t))
  ELSE IF t[Len(t)] \in Whitespace THEN Strip(SubSeq(t, 1, Len(t) - 1))
  ELSE t

UpperCase == <<"A", "B", "C", "D", "E", "F", "G", "H", "I", "J", "K", "L", "M",
               "N", "O", "P", "Q", "R", "S", "T", "U", "V", "W", "X", "Y", "Z">>
LowerCase == <<"a", "b", "c", "d", "e", "f", "g", "h", "i", "j", "k", "l", "m",
               "n", "o", "p", "q", "r", "s", "t", "u", "v", "w", "x", "y", "z">>

\* str.lower()
Lower(t) ==
  [i \in 1..Len(t) |->
     IF \E k \in 1..Len(UpperCase) : UpperCase[k] = t[i]
     THEN LowerCase[CHOOSE k \in 1..Len(UpperCase) : UpperCase[k] = t[i]]
     ELSE t[i]]

\* str.startswith(p)
StartsWith(t, p) == Len(t) >= Len(p) /\ SubSeq(t, 1, Len(p)) = p

(***************************************************************************)
(* Texts of the program.                                                   *)
(***************************************************************************)
CmdStart == <<"/", "s", "t", "a", "r", "t">>
CmdHelp == <<"/", "h", "e", "l", "p">>
CmdAnalyze == <<"/", "a", "n", "a", "l", "y", "z", "e">>

\* the text sent for a message that is no command
InfoText(b) ==
  IF b = "app" THEN <<"*Plant Doctor Bot* I can help you identify plant issues from photos! ...">>
  ELSE <<"Plant Doctor Bot - Send me a plant photo for analysis!">>

\* the text sent for /start and /help
WelcomeText(b) ==
  IF b = "app" THEN <<"*Welcome to Plant Doctor!* I'm here to help diagnose your plant problems using AI. ...">>
  ELSE <<"*Plant Doctor Bot* Send me a photo of your plant for AI analysis! ...">>

PhotoPrompt == <<"Please send me a photo of your plant for analysis.">>
ProcessingNotice == <<"Analyzing your plant photo...">>
ComingSoon == <<"Feature coming soon!">>
GenericError == <<"Sorry, I encountered an error. Please try again.">>

\* the text handle_plant_analysis sends from its except clause, e = str(exception)
AnalysisError(b, e) ==
  IF b = "app"
  THEN <<"Sorry, I couldn't analyze the image. Please try again with a clearer photo.">>
  ELSE <<"Sorry, I couldn't analyze the image. Error: ">> \o e

\* what analyze_plant_with_openai returns when the API call raises
Apology ==
  <<"I", " ", "a", "p", "o", "l", "o", "g", "i", "z", "e", ",", " ", "b", "u", "t",
    " ", "I", "'", "m", " ", "h", "a", "v", "i", "n", "g", " ", "t", "r", "o", "u",
    "b", "l", "e", " ", "a", "n", "a", "l", "y", "z", "i", "n", "g", " ", "t", "h",
    "e", " ", "i", "m", "a", "g", "e", " ", "r", "i", "g", "h", "t", " ", "n", "o",
    "w", ".", " ", "P", "l", "e", "a", "s", "e", " ", "t", "r", "y", " ", "a", "g",
    "a", "i", "n", " ", "w", "i", "t", "h", " ", "a", " ", "c", "l", "e", "a", "r",
    "e", "r", " ", "p", "h", "o", "t", "o", " ", "o", "r", " ", "c", "o", "n", "t",
    "a", "c", "t", " ", "a", " ", "l", "o", "c", "a", "l", " ", "g", "a", "r", "d",
    "e", "n", "i", "n", "g", " ", "e", "x", "p", "e", "r", "t", " ", "f", "o", "r",
    " ", "i", "m", "m", "e", "d", "i", "a", "t", "e", " ", "a", "s", "s", "i", "s",
    "t", "a", "n", "c", "e", ".">>

\* the template before {analysis}
Header ==
  <<"\n", "U+1F33F", " ", "*", "P", "l", "a", "n", "t", " ", "A", "n", "a", "l", "y",
    "s", "i", "s", " ", "R", "e", "s", "u", "l", "t", "s", "*", "\n", "\n">>

\* the template after {analysis}
FooterApp ==
  <<"\n", "\n", "U+1F4A1", " ", "*", "R", "e", "m", "e", "m", "b", "e", "r", "*", ":",
    " ", "T", "h", "i", "s", " ", "i", "s", " ", "a", "n", " ", "A", "I", " ", "a",
    "n", "a", "l", "y", "s", "i", "s", ".", " ", "F", "o", "r", " ", "s", "e", "r",
    "i", "o", "u", "s", " ", "p", "l", "a", "n", "t", " ", "i", "s", "s", "u", "e",
    "s", ",", " ", "c", "o", "n", "s", "i", "d", "e", "r", " ", "c", "o", "n", "s",
    "u", "l", "t", "i", "n", "g", " ", "a", " ", "l", "o", "c", "a", "l", " ", "g",
    "a", "r", "d", "e", "n", "i", "n", "g", " ", "e", "x", "p", "e", "r", "t", " ",
    "o", "r", " ", "a", "g", "r", "i", "c", "u", "l", "t", "u", "r", "a", "l", " ",
    "e", "x", "t", "e", "n", "s", "i", "o", "n", " ", "s", "e", "r", "v", "i", "c",
    "e", ".", "\n", "\n", "S", "e", "n", "d", " ", "a", "n", "o", "t", "h", "e", "r",
    " ", "p", "h", "o", "t", "o", " ", "i", "f", " ", "y", "o", "u", " ", "h", "a",
    "v", "e", " ", "m", "o", "r", "e", " ", "p", "l", "a", "n", "t", "s", " ", "t",
    "o", " ", "a", "n", "a", "l", "y", "z", "e", "!", "\n">>

FooterMain ==
  <<"\n", "\n", "U+1F4A1", " ", "*", "R", "e", "m", "e", "m", "b", "e", "r", "*", ":",
    " ", "T", "h", "i", "s", " ", "i", "s", " ", "a", "n", " ", "A", "I", " ", "a",
    "n", "a", "l", "y", "s", "i", "s", ".", " ", "F", "o", "r", " ", "s", "e", "r",
    "i", "o", "u", "s", " ", "p", "l", "a", "n", "t", " ", "i", "s", "s", "u", "e",
    "s", ",", " ", "c", "o", "n", "s", "u", "l", "t", " ", "a", " ", "l", "o", "c",
    "a", "l", " ", "e", "x", "p", "e", "r", "t", ".", "\n">>

Footer(b) == IF b = "app" THEN FooterApp ELSE FooterMain

(***************************************************************************)
(* Response Formatter: send_analysis_results up to the first send.         *)
(***************************************************************************)
\* the split threshold and the slice width of send_analysis_results
MaxChunk == 4000

\* main.py: analysis.replace('*', '\\*').replace('_', '\\_').replace('[', '\\[').replace(']', '\\]')
Escape(t) ==
  Replace(Replace(Replace(Replace(t, "*", <<"\\", "*">>),
                          "_", <<"\\", "_">>),
                  "[", <<"\\", "[">>),
          "]", <<"\\", "]">>)

\* the analysis as it is put into the template: escaped by main.py, as it is by app.py
Body(b, a) == IF b = "main" THEN Escape(a) ELSE a

\* formatted_response
FormatResponse(b, a) == Header \o Body(b, a) \o Footer(b)

\* Chunks with slices one character short, formatted_response[i:i+3999]: what
\* C3 must tell from Chunks
ChunksDropLast(s) ==
  LET starts == Range0(Len(s), MaxChunk)
  IN  [k \in 1..Len(starts) |-> Slice(s, starts[k], starts[k] + MaxChunk - 1)]

\* [formatted_response[i:i+4000] for i in range(0, len(formatted_response), 4000)]
Chunks(s) ==
  LET starts == Range0(Len(s), MaxChunk)
  IN  [k \in 1..Len(starts) |-> Slice(s, starts[k], starts[k] + MaxChunk)]

\* the texts send_analysis_results sends, in order: the chunks of a long response,
\* the response itself otherwise
Pieces(s) == IF Len(s) > MaxChunk THEN Chunks(s) ELSE <<s>>

(***************************************************************************)
(* Inputs.                                                                 *)
(***************************************************************************)
Chats == {"chatA", "chatB"}

\* message.photo: the available sizes, smallest first
Photos == {<<"small_file">>, <<"small_file", "large_file">>}

Words ==
  { CmdStart, CmdHelp, CmdAnalyze,
    <<"/", "f", "o", "o">>, <<"/", "S", "T", "A", "R", "T">>, <<"/", "H", "e", "l", "p">>,
    <<"/">>, <<"h", "e", "l", "l", "o">>, <<"s", "t", "a", "r", "t">> }

Pads == {<<>>, <<" ">>}

\* message.text; <<>> stands for a message without text (None and "" are both falsy)
Texts == {<<>>} \cup {l \o w \o r : l \in Pads, w \in Words, r \in Pads}

Update(kind, chat, photo, text, data) ==
  [kind |-> kind, chat_id |-> chat, photo |-> photo, text |-> text, data |-> data]

Updates ==
  {Update("message", c, <<>>, t, None) : c \in Chats, t \in Texts}
  \cup {Update("message", c, p, t, None) : c \in Chats, p \in Photos, t \in {<<>>, CmdStart}}
  \cup {Update("callback_query", c, <<>>, <<>>, d) : c \in Chats, d \in {"more", "/start"}}
  \cup {Update("edited_message", c, <<>>, <<>>, None) : c \in Chats}

\* an analysis text: pre times "a", the core, then "b" up to a response of length t
\* before escaping; the core alone when t = 0
AnalysisText(b, core, pre, t) ==
  IF t = 0 THEN core
  ELSE Rep("a", pre) \o core
       \o Rep("b", t - Len(Header) - Len(Footer(b)) - pre - Len(core))

CoreAlphabet == {"*", "_", "[", "]", "\\", "x"}

Cores == UNION {[1..n -> CoreAlphabet] : n \in 0..MaxCore}

\* response lengths before escaping around one and two chunk boundaries (0: no padding)
TemplatedLens == {0, MaxChunk, MaxChunk + 1, 2 * MaxChunk, 2 * MaxChunk + 50}

\* the core at the start of the analysis, or with its first character the last of chunk 1
PrePads == {0, MaxChunk - Len(Header) - 1}

FormatterInputs(b) ==
  {AnalysisText(b, core, pre, t) : core \in Cores, pre \in PrePads, t \in TemplatedLens}

\* what the AI backend may answer in the handler specification
SampleAnalyses(b) ==
  {AnalysisText(b, core, 0, t) :
     core \in {<<"O", "K">>, <<"*", "[">>}, t \in {0, 2 * MaxChunk + 50}}

\* str(e) of an exception raised by a platform or backend call
ExcMsgs == {"Timed out", "Bad Request"}

Ok == "ok"
Outcomes == {Ok} \cup ExcMsgs

(***************************************************************************)
(* State.                                                                  *)
(*   pc                  the statement the handler is at                   *)
(*   update              the inbound update                                *)
(*   log                 the calls made so far, in order, with outcome     *)
(*   exc                 str(e) of the exception being propagated or       *)
(*                       handled, NoExc when there is none                 *)
(*   processing_msg      message id of the "Analyzing" notice              *)
(*   response            what webhook() gave the HTTP layer                *)
(***************************************************************************)
Event(op, ref, text, mode, ok) ==
  [op |-> op, chat_id |-> update.chat_id, ref |-> ref, text |-> text,
   parse_mode |-> mode, ok |-> ok]

\* one call that returns (Ok) or raises: control goes to okpc, or to failpc with
\* the exception
PlatformCall(op, ref, text, mode, okpc, failpc) ==
  \E r \in Outcomes :
    /\ log' = Append(log, Event(op, ref, text, mode, r = Ok))
    /\ pc' = IF r = Ok THEN okpc ELSE failpc
    /\ exc' = IF r = Ok THEN NoExc ELSE <<r>>

NoUpdate == Update("none", "none", <<>>, <<>>, None)

Init ==
  /\ backend \in Backends
  /\ pc = "webhook"
  /\ update = NoUpdate
  /\ log = <<>>
  /\ exc = NoExc
  /\ processing_msg = None
  /\ analysis = <<>>
  /\ formatted_response = <<>>
  /\ chunks = <<>>
  /\ ci = 0
  /\ response = None

\* webhook(): Update.de_json and the dispatch on the update's kind
webhook ==
  /\ pc = "webhook"
  /\ \E u \in Updates :
       /\ update' = u
       /\ pc' = IF u.kind = "message" THEN "handle_message"
                ELSE IF u.kind = "callback_query" THEN "handle_callback"
                ELSE "return"
  /\ UNCHANGED <<backend, log, exc, processing_msg, analysis, formatted_response,
                 chunks, ci, response>>

\* webhook(): return jsonify({'status': 'ok'})
webhook_return ==
  /\ pc = "return"
  /\ response' = "ok"
  /\ pc' = "done"
  /\ UNCHANGED <<backend, update, log, exc, processing_msg, analysis,
                 formatted_response, chunks, ci>>

\* an exception leaves webhook(): no body is returned by it
webhook_raise ==
  /\ pc = "raise"
  /\ response' = "exception"
  /\ pc' = "done"
  /\ UNCHANGED <<backend, update, log, exc, processing_msg, analysis,
                 formatted_response, chunks, ci>>

\* handle_message: the try block's dispatch
handle_message ==
  /\ pc = "handle_message"
  /\ pc' = IF update.photo # <<>> THEN "handle_plant_analysis"
           ELSE IF update.text # <<>> THEN "handle_text_message"
           ELSE "return"
  /\ UNCHANGED <<backend, update, log, exc, processing_msg, analysis,
                 formatted_response, chunks, ci, response>>

\* handle_message: except Exception
handle_message_except ==
  /\ pc = "handle_message_except"
  /\ PlatformCall("send_message", None, GenericError, None, "return", "raise")
  /\ UNCHANGED <<backend, update, processing_msg, analysis, formatted_response,
                 chunks, ci, response>>

handle_text_message ==
  /\ pc = "handle_text_message"
  /\ LET text == Strip(update.text) IN
       IF StartsWith(text, <<"/">>)
       THEN pc' = "handle_commands" /\ UNCHANGED <<log, exc>>
       ELSE PlatformCall("send_message", None, InfoText(backend), "Markdown",
                         "return", "handle_message_except")
  /\ UNCHANGED <<backend, update, processing_msg, analysis, formatted_response,
                 chunks, ci, response>>

\* handle_commands answering every command that is not /analyze with the welcome
\* text: what C6 must tell from handle_commands
handle_commands_any ==
  /\ pc = "handle_commands"
  /\ LET text == Lower(Strip(update.text)) IN
       IF text = CmdAnalyze
       THEN PlatformCall("send_message", None, PhotoPrompt, None,
                         "return", "handle_message_except")
       ELSE PlatformCall("send_message", None, WelcomeText(backend), "Markdown",
                         "return", "handle_message_except")
  /\ UNCHANGED <<backend, update, processing_msg, analysis, formatted_response,
                 chunks, ci, response>>

handle_commands ==
  /\ pc = "handle_commands"
  /\ LET text == Lower(Strip(update.text)) IN
       IF text = CmdStart \/ text = CmdHelp
       THEN PlatformCall("send_message", None, WelcomeText(backend), "Markdown",
                         "return", "handle_message_except")
       ELSE IF text = CmdAnalyze
       THEN PlatformCall("send_message", None, PhotoPrompt, None,
                         "return", "handle_message_except")
       ELSE pc' = "return" /\ UNCHANGED <<log, exc>>
  /\ UNCHANGED <<backend, update, processing_msg, analysis, formatted_response,
                 chunks, ci, response>>

\* handle_callback: bot.answer_callback_query(callback_query.id)
handle_callback ==
  /\ pc = "handle_callback"
  /\ PlatformCall("answer_callback_query", "callback_query.id", <<>>, None,
                  "handle_callback_send", "raise")
  /\ UNCHANGED <<backend, update, processing_msg, analysis, formatted_response,
                 chunks, ci, response>>

\* handle_callback replying with the callback's data: what C7 must tell from
\* handle_callback_send
handle_callback_echo ==
  /\ pc = "handle_callback_send"
  /\ PlatformCall("send_message", None, <<update.data>>, None, "return", "raise")
  /\ UNCHANGED <<backend, update, processing_msg, analysis, formatted_response,
                 chunks, ci, response>>

\* handle_callback: bot.send_message(chat_id, "Feature coming soon!")
handle_callback_send ==
  /\ pc = "handle_callback_send"
  /\ PlatformCall("send_message", None, ComingSoon, None, "return", "raise")
  /\ UNCHANGED <<backend, update, processing_msg, analysis, formatted_response,
                 chunks, ci, response>>

(***************************************************************************)
(* handle_plant_analysis: the statements of its try block, then its except *)
(* clause.  An exception raised in the try block goes to the except clause.*)
(***************************************************************************)
\* processing_msg = bot.send_message(chat_id, "Analyzing your plant photo...")
send_processing_msg ==
  /\ pc = "handle_plant_analysis"
  /\ PlatformCall("send_message", None, ProcessingNotice, None,
                  "get_file", "handle_plant_analysis_except")
  /\ processing_msg' = IF pc' = "get_file" THEN "processing_msg.message_id"
                       ELSE processing_msg
  /\ UNCHANGED <<backend, update, analysis, formatted_response, chunks, ci, response>>

\* photo_file = message.photo[-1].get_file()
get_file ==
  /\ pc = "get_file"
  /\ PlatformCall("get_file", update.photo[Len(update.photo)], <<>>, None,
                  "download", "handle_plant_analysis_except")
  /\ UNCHANGED <<backend, update, processing_msg, analysis, formatted_response,
                 chunks, ci, response>>

\* download with its failure ignored: what C10 must tell from download
download_unchecked ==
  /\ pc = "download"
  /\ \E r \in Outcomes :
       log' = Append(log, Event("download", update.photo[Len(update.photo)], <<>>,
                                None, r = Ok))
  /\ pc' = IF backend = "app" THEN "analyze" ELSE "Image.open"
  /\ UNCHANGED <<backend, update, exc, processing_msg, analysis, formatted_response,
                 chunks, ci, response>>

\* photo_file.download(out=photo_bytes); app.py then encodes the bytes (base64),
\* main.py opens them as an image
download ==
  /\ pc = "download"
  /\ PlatformCall("download", update.photo[Len(update.photo)], <<>>, None,
                  IF backend = "app" THEN "analyze" ELSE "Image.open",
                  "handle_plant_analysis_except")
  /\ UNCHANGED <<backend, update, processing_msg, analysis, formatted_response,
                 chunks, ci, response>>

\* main.py: img = Image.open(photo_bytes), which raises on bytes that are no image
image_open ==
  /\ pc = "Image.open"
  /\ PlatformCall("Image.open", update.photo[Len(update.photo)], <<>>, None,
                  "analyze", "handle_plant_analysis_except")
  /\ UNCHANGED <<backend, update, processing_msg, analysis, formatted_response,
                 chunks, ci, response>>

\* app.py: the API error is caught inside and the canned apology returned
analyze_plant_with_openai ==
  /\ pc = "analyze"
  /\ backend = "app"
  /\ \E r \in Outcomes :
       /\ log' = Append(log, Event("ChatCompletion.create", None, <<>>, None, r = Ok))
       /\ IF r = Ok THEN analysis' \in SampleAnalyses(backend)
          ELSE analysis' = Apology
  /\ pc' = "delete_message"
  /\ UNCHANGED <<backend, update, exc, processing_msg, formatted_response, chunks,
                 ci, response>>

\* the Gemini analyzer behaving like the OpenAI one on an API error: what C8 must
\* tell from analyze_plant_with_gemini
analyze_plant_with_gemini_swallow ==
  /\ pc = "analyze"
  /\ backend = "main"
  /\ \E r \in Outcomes :
       /\ log' = Append(log, Event("generate_content", None, <<>>, None, r = Ok))
       /\ IF r = Ok THEN analysis' \in SampleAnalyses(backend)
          ELSE analysis' = Apology
  /\ pc' = "delete_message"
  /\ UNCHANGED <<backend, update, exc, processing_msg, formatted_response, chunks,
                 ci, response>>

\* main.py: the API error is caught inside and raised again, wrapped
analyze_plant_with_gemini ==
  /\ pc = "analyze"
  /\ backend = "main"
  /\ \E r \in Outcomes :
       /\ log' = Append(log, Event("generate_content", None, <<>>, None, r = Ok))
       /\ IF r = Ok
          THEN /\ analysis' \in SampleAnalyses(backend)
               /\ pc' = "delete_message"
               /\ exc' = NoExc
          ELSE /\ analysis' = analysis
               /\ pc' = "handle_plant_analysis_except"
               /\ exc' = <<"Gemini API error: ", r>>
  /\ UNCHANGED <<backend, update, processing_msg, formatted_response, chunks, ci,
                 response>>

\* bot.delete_message(chat_id, processing_msg.message_id)
delete_message ==
  /\ pc = "delete_message"
  /\ PlatformCall("delete_message", processing_msg, <<>>, None,
                  "send_analysis_results", "handle_plant_analysis_except")
  /\ UNCHANGED <<backend, update, processing_msg, analysis, formatted_response,
                 chunks, ci, response>>

\* send_analysis_results: the response is built and, when long, split
send_analysis_results ==
  /\ pc = "send_analysis_results"
  /\ formatted_response' = FormatResponse(backend, analysis)
  /\ chunks' = Pieces(formatted_response')
  /\ ci' = 1
  /\ pc' = "send_chunk"
  /\ UNCHANGED <<backend, update, log, exc, processing_msg, analysis, response>>

\* after chunk ci went out: the next chunk, or back to the caller
NextChunk ==
  IF ci < Len(chunks) THEN ci' = ci + 1 /\ pc' = "send_chunk"
  ELSE ci' = ci /\ pc' = "return"

\* send_analysis_results: bot.send_message(chat_id, chunk, parse_mode='Markdown');
\* main.py catches what it raises and sends the chunk again without parse_mode
send_chunk(outs) ==
  /\ pc = "send_chunk"
  /\ \E r \in outs :
       /\ log' = Append(log, Event("send_message", None, chunks[ci], "Markdown", r = Ok))
       /\ IF r = Ok THEN NextChunk /\ exc' = NoExc
          ELSE IF backend = "main"
          THEN ci' = ci /\ pc' = "send_chunk_plain" /\ exc' = NoExc
          ELSE ci' = ci /\ pc' = "handle_plant_analysis_except" /\ exc' = <<r>>
  /\ UNCHANGED <<backend, update, processing_msg, analysis, formatted_response,
                 chunks, response>>

\* main.py: except: bot.send_message(chat_id, chunk)
send_chunk_plain ==
  /\ pc = "send_chunk_plain"
  /\ \E r \in Outcomes :
       /\ log' = Append(log, Event("send_message", None, chunks[ci], None, r = Ok))
       /\ IF r = Ok THEN NextChunk /\ exc' = NoExc
          ELSE ci' = ci /\ pc' = "handle_plant_analysis_except" /\ exc' = <<r>>
  /\ UNCHANGED <<backend, update, processing_msg, analysis, formatted_response,
                 chunks, response>>

\* the except clause passing the exception on without a message: what C1 must tell
\* from handle_plant_analysis_except
handle_plant_analysis_reraise ==
  /\ pc = "handle_plant_analysis_except"
  /\ pc' = "handle_message_except"
  /\ UNCHANGED <<backend, update, log, exc, processing_msg, analysis,
                 formatted_response, chunks, ci, response>>

\* handle_plant_analysis: except Exception as e: bot.send_message(chat_id, ...)
handle_plant_analysis_except ==
  /\ pc = "handle_plant_analysis_except"
  /\ PlatformCall("send_message", None, AnalysisError(backend, exc), None,
                  "return", "handle_message_except")
  /\ UNCHANGED <<backend, update, processing_msg, analysis, formatted_response,
                 chunks, ci, response>>

(***************************************************************************)
(* Specifications.  Spec: one update handled by webhook(), every call free *)
(* to raise.  SpecFmt: send_analysis_results applied to a drawn analysis   *)
(* text with every send succeeding.                                        *)
(***************************************************************************)
Next ==
  \/ webhook
  \/ webhook_return
  \/ webhook_raise
  \/ handle_message
  \/ handle_message_except
  \/ handle_text_message
  \/ handle_commands
  \/ handle_callback
  \/ handle_callback_send
  \/ send_processing_msg
  \/ get_file
  \/ download
  \/ image_open
  \/ analyze_plant_with_openai
  \/ analyze_plant_with_gemini
  \/ delete_message
  \/ send_analysis_results
  \/ send_chunk(Outcomes)
  \/ send_chunk_plain
  \/ handle_plant_analysis_except

Spec == Init /\ [][Next]_vars

InitFmt ==
  /\ backend \in Backends
  /\ pc = "send_analysis_results"
  /\ update = Update("message", "chatA", <<"large_file">>, <<>>, None)
  /\ log = <<>>
  /\ exc = NoExc
  /\ processing_msg = "processing_msg.message_id"
  /\ analysis \in FormatterInputs(backend)
  /\ formatted_response = <<>>
  /\ chunks = <<>>
  /\ ci = 0
  /\ response = None

NextFmt ==
  \/ send_analysis_results
  \/ send_chunk({Ok})

SpecFmt == InitFmt /\ [][NextFmt]_vars

(***************************************************************************)
(* Vocabulary of the properties.                                           *)
(***************************************************************************)
PhotoUpdate == update.kind = "message" /\ update.photo # <<>>

TextUpdate == update.kind = "message" /\ update.photo = <<>> /\ update.text # <<>>

Indices == 1..Len(log)

AllOk == \A i \in Indices : log[i].ok

Failed == {i \in Indices : ~log[i].ok}

IsSend(r) == r.op = "send_message"

\* the text is the one handle_plant_analysis's except clause sends
IsAnalysisErrorText(t) ==
  /\ Len(t) >= 1
  /\ t[1] \in {AnalysisError("app", NoExc)[1], AnalysisError("main", NoExc)[1]}

IsErrorSend(r) == IsSend(r) /\ (IsAnalysisErrorText(r.text) \/ r.text = GenericError)

IsNotice(r) == IsSend(r) /\ r.text = ProcessingNotice

\* a send of (a piece of) the formatted analysis
IsChunkSend(r) == IsSend(r) /\ ~IsNotice(r) /\ ~IsErrorSend(r)

IsAnalyzerCall(r) == r.op \in {"ChatCompletion.create", "generate_content"}

IsFetch(r) == r.op \in {"get_file", "download"}

InnerErr == {i \in Indices : IsSend(log[i]) /\ IsAnalysisErrorText(log[i].text)}

OuterErr == {i \in Indices : IsSend(log[i]) /\ log[i].text = GenericError}

DeliveredErr == {i \in InnerErr \cup OuterErr : log[i].ok}

\* a failure that is caught before it reaches handle_plant_analysis's except clause
Swallowed(r) ==
  /\ ~r.ok
  /\ \/ backend = "app" /\ r.op = "ChatCompletion.create"
     \/ backend = "main" /\ IsSend(r) /\ r.parse_mode = "Markdown"

\* a statement of handle_plant_analysis's try block raised
Raised == \E i \in Indices : ~log[i].ok /\ ~Swallowed(log[i]) /\ ~IsErrorSend(log[i])

RECURSIVE Concat(_)
Concat(ss) == IF ss = <<>> THEN <<>> ELSE Head(ss) \o Concat(Tail(ss))

CeilDiv(a, b) == (a + b - 1) \div b

(***************************************************************************)
(* C1.                                                                     *)
(***************************************************************************)
\* C1 as stated: for a photo message and one failing step of the photo path (the
\* notice, get_file/download, the analyzer call, the notice's deletion, a result
\* chunk's send), everything else succeeding, webhook's handle_message returns
\* normally and exactly one error message has been sent.
C1_AnyFailingStepOneError ==
  (pc = "done" /\ PhotoUpdate /\ Cardinality(Failed) = 1)
    => (response = "ok" /\ Cardinality(DeliveredErr) = 1)

\* C1 amended: for a photo message, a failure reaches handle_plant_analysis's
\* except clause unless it is app.py's analyzer call or main.py's markdown send of a
\* chunk; when one does, that clause attempts exactly one error message, to the
\* originating chat; if the attempt succeeds handle_message returns normally with
\* exactly one error message sent, and if it fails handle_message's own clause
\* attempts one generic error message and returns normally exactly when that one
\* succeeds.  When no failure reaches the clause no error message is sent.
C1_ReachedCatchAllOneError ==
  (pc = "done" /\ PhotoUpdate) =>
    /\ \A i \in InnerErr \cup OuterErr : log[i].chat_id = update.chat_id
    /\ Cardinality(DeliveredErr) <= 1
    /\ IF Raised
       THEN /\ Cardinality(InnerErr) = 1
            /\ \A i \in InnerErr :
                 IF log[i].ok
                 THEN response = "ok" /\ OuterErr = {} /\ Cardinality(DeliveredErr) = 1
                 ELSE /\ Cardinality(OuterErr) = 1
                      /\ \A j \in OuterErr : j > i /\ (response = "ok" <=> log[j].ok)
       ELSE InnerErr = {} /\ OuterErr = {} /\ response = "ok"

\* C1 witness: a result chunk's send raised, one error message went out, the
\* handler returned
C1_Witness ==
  /\ pc = "done" /\ PhotoUpdate /\ response = "ok"
  /\ Cardinality(DeliveredErr) = 1
  /\ \E i \in Failed : IsChunkSend(log[i]) /\ ~Swallowed(log[i])

(***************************************************************************)
(* C2.                                                                     *)
(***************************************************************************)
\* C2: whatever the platform and AI calls do, webhook() completes with the body
\* {"status": "ok"}; no exception leaves it.
C2_WebhookAlwaysOk == pc = "done" => response = "ok"

(***************************************************************************)
(* C3.                                                                     *)
(***************************************************************************)
\* C3: with all sends succeeding, a response of length L <= 4000 goes out as one
\* send equal to the response; a longer one as ceil(L/4000) sends in order, each of
\* length 1..4000, whose concatenation is the response; L = 8050 gives 4000, 4000, 50.
C3_ChunkRoundTrip ==
  pc = "return" =>
    LET L == Len(formatted_response)
        texts == [i \in Indices |-> log[i].text]
    IN  /\ \A i \in Indices :
             IsSend(log[i]) /\ log[i].ok /\ log[i].parse_mode = "Markdown"
        /\ L <= MaxChunk => texts = <<formatted_response>>
        /\ L > MaxChunk =>
             /\ Len(texts) = CeilDiv(L, MaxChunk)
             /\ \A i \in Indices : Len(texts[i]) >= 1 /\ Len(texts[i]) <= MaxChunk
             /\ Concat(texts) = formatted_response
        /\ L = 2 * MaxChunk + 50 =>
             [i \in Indices |-> Len(texts[i])] = <<MaxChunk, MaxChunk, 50>>

\* C3 witness: a response of 8050 characters has gone out in three sends
C3_Witness ==
  /\ pc = "return"
  /\ Len(formatted_response) = 2 * MaxChunk + 50
  /\ Len(log) = 3

(***************************************************************************)
(* C4.                                                                     *)
(***************************************************************************)
Specials == {"*", "_", "[", "]"}

\* C4: in the response of either backend, every '*', '_', '[' and ']' of the
\* analysis part is preceded, inside that part, by a backslash.
C4_AnalysisEscaped ==
  formatted_response # <<>> =>
    LET first == Len(Header) + 1
        last == Len(formatted_response) - Len(Footer(backend))
    IN  \A i \in first..last :
          formatted_response[i] \in Specials
            => (i > first /\ formatted_response[i - 1] = "\\")

(***************************************************************************)
(* C5.                                                                     *)
(***************************************************************************)
\* C5: in the photo path every chunk goes out with markdown first; a failed
\* markdown send is followed by one plain send of the same chunk, and a chunk
\* whose markdown send succeeded is not sent again.
C5_PlainRetryPerChunk ==
  PhotoUpdate =>
    \A i \in Indices :
      (IsChunkSend(log[i]) /\ log[i].parse_mode = "Markdown") =>
        /\ (~log[i].ok /\ i < Len(log)) =>
              /\ IsChunkSend(log[i + 1])
              /\ log[i + 1].text = log[i].text
              /\ log[i + 1].parse_mode = None
        /\ (~log[i].ok /\ pc = "done") => i < Len(log)
        /\ (log[i].ok /\ i < Len(log)) =>
              ~(IsChunkSend(log[i + 1]) /\ log[i + 1].parse_mode = None)

(***************************************************************************)
(* C6.                                                                     *)
(***************************************************************************)
WelcomeSent == <<Event("send_message", None, WelcomeText(backend), "Markdown", TRUE)>>

PromptSent == <<Event("send_message", None, PhotoPrompt, None, TRUE)>>

\* C6 as stated: with the platform answering, a text beginning with '/' that is
\* '/start' or '/help' gives the one welcome message, '/analyze' the one photo
\* prompt, and every other such text gives no outbound message.
C6_ExactCommandTexts ==
  (pc = "done" /\ TextUpdate /\ StartsWith(update.text, <<"/">>) /\ AllOk) =>
    /\ response = "ok"
    /\ IF update.text = CmdStart \/ update.text = CmdHelp THEN log = WelcomeSent
       ELSE IF update.text = CmdAnalyze THEN log = PromptSent
       ELSE log = <<>>

\* C6 amended: the command is the text with surrounding whitespace stripped and
\* letters lower-cased.  With the platform answering, a command '/start' or '/help'
\* gives exactly one outbound message, the same for both in content and mode;
\* '/analyze' gives exactly one, the photo prompt; a text whose command is none of
\* the three (e.g. '/foo') gives no outbound message and no error.
C6_NormalisedCommands ==
  (pc = "done" /\ TextUpdate /\ StartsWith(Strip(update.text), <<"/">>) /\ AllOk) =>
    LET cmd == Lower(Strip(update.text)) IN
    /\ response = "ok"
    /\ IF cmd = CmdStart \/ cmd = CmdHelp THEN log = WelcomeSent
       ELSE IF cmd = CmdAnalyze THEN log = PromptSent
       ELSE log = <<>>

\* C6 witness: '/START' has been answered with the welcome message
C6_Witness ==
  /\ pc = "done" /\ TextUpdate
  /\ update.text = <<"/", "S", "T", "A", "R", "T">>
  /\ log = WelcomeSent

(***************************************************************************)
(* C7.                                                                     *)
(***************************************************************************)
\* C7: for a callback query the outbound calls are, in order, one
\* answer_callback_query and then one "Feature coming soon!" message to the
\* originating chat, whatever the callback's data, and nothing else; both are made
\* whenever the platform answers.
C7_CallbackAckThenComingSoon ==
  update.kind = "callback_query" =>
    /\ Len(log) <= 2
    /\ pc = "done" => Len(log) >= 1
    /\ Len(log) >= 1 =>
         /\ log[1].op = "answer_callback_query"
         /\ log[1].ref = "callback_query.id"
    /\ Len(log) = 2 =>
         /\ log[1].ok
         /\ \E ok \in BOOLEAN : log[2] = Event("send_message", None, ComingSoon, None, ok)
    /\ (pc = "done" /\ AllOk) => (Len(log) = 2 /\ response = "ok")

\* C7 witness: a callback whose data reads like a command got the two calls
C7_Witness ==
  /\ pc = "done" /\ update.kind = "callback_query" /\ update.data = "/start"
  /\ Len(log) = 2 /\ AllOk

(***************************************************************************)
(* C8.                                                                     *)
(***************************************************************************)
\* the sends of send_analysis_results for analysis a, all succeeding
ResultSends(a) ==
  LET ps == Pieces(FormatResponse(backend, a))
  IN  [k \in 1..Len(ps) |-> Event("send_message", None, ps[k], "Markdown", TRUE)]

\* C8: when the AI call raises, app.py's analyzer returns the canned apology, the
\* next call is the notice's deletion and, the platform answering, the apology goes
\* out through the result formatter with no error message; main.py's analyzer
\* raises the wrapped error, the notice is not deleted, no result is sent and the
\* next call is the catch-all's error message.
C8_BackendFailureAsymmetry ==
  \A i \in Indices :
    (IsAnalyzerCall(log[i]) /\ ~log[i].ok) =>
      IF backend = "app"
      THEN /\ analysis = Apology
           /\ i < Len(log) => log[i + 1].op = "delete_message"
           /\ pc = "done" => i < Len(log)
           /\ (pc = "done" /\ Failed = {i}) =>
                /\ SubSeq(log, i + 1, Len(log)) =
                     <<Event("delete_message", processing_msg, <<>>, None, TRUE)>>
                     \o ResultSends(Apology)
                /\ InnerErr \cup OuterErr = {}
                /\ response = "ok"
      ELSE /\ \A j \in Indices : log[j].op # "delete_message" /\ ~IsChunkSend(log[j])
           /\ formatted_response = <<>>
           /\ pc = "done" => i < Len(log)
           /\ i < Len(log) =>
                \E m \in ExcMsgs, ok \in BOOLEAN :
                  log[i + 1] = Event("send_message", None,
                                     AnalysisError("main", <<"Gemini API error: ", m>>),
                                     None, ok)

\* C8 witness: app.py's AI call raised and the apology went out as the result
C8_Witness ==
  /\ pc = "done" /\ backend = "app" /\ response = "ok"
  /\ \E i \in Indices : IsAnalyzerCall(log[i]) /\ Failed = {i}
  /\ \E j \in Indices : IsChunkSend(log[j]) /\ log[j].ok

(***************************************************************************)
(* C9.                                                                     *)
(***************************************************************************)
\* C9: every error message sent by a catch-all is the same text whatever the
\* exception was: the one that would have been sent for any other exception.
C9_ErrorTextIndependentOfException ==
  \A i \in Indices :
    IsErrorSend(log[i]) =>
      \/ log[i].text = GenericError
      \/ \A m \in ExcMsgs : log[i].text = AnalysisError(backend, <<m>>)

(***************************************************************************)
(* C10.                                                                    *)
(***************************************************************************)
\* the place of a call in the photo path
Rank(r) ==
  IF IsNotice(r) THEN 1
  ELSE IF r.op = "get_file" THEN 2
  ELSE IF r.op = "download" THEN 3
  ELSE IF r.op = "Image.open" THEN 4
  ELSE IF IsAnalyzerCall(r) THEN 5
  ELSE IF r.op = "delete_message" THEN 6
  ELSE IF IsChunkSend(r) THEN 7
  ELSE 8

IsDeliveredSend(r) == IsSend(r) /\ r.ok

====
